---- MODULE Spec2Model ----
(***************************************************************************)
(* Embedding store and similarity search of the AI-assistant repository.  *)
(*                                                                         *)
(* Two implementations work on the same SQLite table `embeddings`:        *)
(*   - EmbeddingService (embedding_service.py), served over HTTP by        *)
(*     api_chandresh.py: learned embedding, text_content stored inline;    *)
(*   - main.py: hashing embedding, no text_content written.                *)
(*                                                                         *)
(* Numbers.  A vector is a record [c, s] standing for the float vector     *)
(* c / sqrt(s): c is a tuple of integers and s a positive integer, so an   *)
(* L2-normalised histogram h is [c |-> h, s |-> h.h].  A cosine score x is *)
(* the record [n, d] standing for sgn(x) * x^2 = n / d with d > 0; the map *)
(* x |-> sgn(x) * x^2 is strictly increasing, so the order of scores and   *)
(* their ties are those of the exact cosines.  Floating-point rounding is  *)
(* not modelled; overflow and underflow of doubles are, for the cosine on  *)
(* its own (SpecCos).  The timestamp column, which no code reads, is       *)
(* carried by the rows of SpecConc only.  Texts are strings; the result    *)
(* text is cut at 200 characters, which only the texts of SpecLong         *)
(* exceed.                                                                 *)
(*                                                                         *)
(* The table has the schema of database.init_database (with text_content), *)
(* the one both implementations can write.  Requests are served one at a   *)
(* time: resp holds the request being answered and its response until      *)
(* Return hands it to the caller.                                          *)
(*                                                                         *)
(* Specifications.  Spec: stores and searches of both implementations.     *)
(* SpecTopK: a table larger than the result cap.  SpecCos: the cosine on   *)
(* doubles.  SpecHash: the hashing embedding across restarts.              *)
(* SpecCorrupt: unparsable vectors.  SpecIndex: bulk indexing.  SpecConc:  *)
(* stores of several processes on one key.  SpecFail: searches on an       *)
(* unreachable database.  SpecPipe: the handlers of api_pipeline.py.       *)
(* SpecLong: texts around the display limit.  SpecPurge: statistics and    *)
(* purge.  SpecRetry: the retry loop of the HTTP store, with fairness.     *)
(* SpecLazy: lazy loading of the embedding model.                          *)
(***************************************************************************)
EXTENDS Integers, Sequences, FiniteSets, TLC

VARIABLES embeddings, hashSeed, resp, summaries, tasks, indexer,
          writers, service, coach_feedback, pipeline_config

vars == <<embeddings, hashSeed, resp, summaries, tasks, indexer,
          writers, service, coach_feedback, pipeline_config>>

\* store_embedding calls under way in other processes, the model object of
\* the EmbeddingService instance, and the state of api_pipeline.py
sideVars == <<writers, service, coach_feedback, pipeline_config>>

\* the tables bulk indexing reads and the state of its run
indexVars == <<summaries, tasks, indexer>>

(***************************************************************************)
(* Bounds of the model.                                                    *)
(***************************************************************************)
\* requests carry top_k in MinTopK .. MaxTopK
MaxTopK == 2
\* items the bulk client of SpecTopK stores
MaxBulk == 11
\* number of buckets of the hashing embedding (DIM of main.py, scaled down)
Dim == 2

MinTopK == 0 - 1

\* the most results main.api_search_similar returns
TopKCap == 10

\* Python's None and SQL's NULL
NoneVal == "<None>"

\* "no vector": the value of a query vector that was never resolved
NoVec == [c |-> <<>>, s |-> 0]

ItemTypes == {"summary", "task"}
ItemIds == {"s1", "s2"}

\* the keys the callers of Spec store under; no caller stores summary "s2"
Keys == {<<"summary", "s1">>, <<"task", "s1">>}

\* the texts callers send; "" is the empty string
Texts == {"", "a", "b"}

\* the per-process seeds of Python's str hash
Seeds == {0, 1}

(***************************************************************************)
(* Python helpers                                                          *)
(***************************************************************************)
\* truthiness of an Optional[str]: None and "" are falsy
Truthy(x) == x # NoneVal /\ x # ""

\* str.split(): the whitespace-separated tokens of a text
Split(text) ==
    CASE text = "a" -> <<"a">>
      [] text = "b" -> <<"b">>
      [] text = "a b" -> <<"a", "b">>
      [] text = "a a" -> <<"a", "a">>
      [] OTHER -> <<>>

\* hash(token) of the running process: randomised per process by the seed
Hash(seed, token) ==
    CASE seed = 0 /\ token = "a" -> 4
      [] seed = 0 /\ token = "b" -> 7
      [] seed = 1 /\ token = "a" -> 0 - 3
      [] OTHER -> 5

RECURSIVE SumSeq(_)
SumSeq(s) == IF s = <<>> THEN 0 ELSE Head(s) + SumSeq(Tail(s))

Min2(a, b) == IF a <= b THEN a ELSE b
Max2(a, b) == IF a >= b THEN a ELSE b

\* seq[:k], Python slicing with a possibly negative stop
Slice(seq, k) ==
    IF k >= 0 THEN SubSeq(seq, 1, Min2(k, Len(seq)))
    ELSE SubSeq(seq, 1, Max2(Len(seq) + k, 0))

SqNorm(c) == SumSeq([i \in 1..Len(c) |-> c[i] * c[i]])

(***************************************************************************)
(* main.py: hashing embedding and cosine                                   *)
(***************************************************************************)
\* the histogram of token buckets, before normalisation
Histogram(text, seed, dim) ==
    LET toks == Split(text)
    IN  [i \in 1..dim |->
            Cardinality({j \in 1..Len(toks) : (Hash(seed, toks[j]) % dim) + 1 = i})]

text_to_vector(text, seed) ==
    LET vec == Histogram(text, seed, Dim)
        norm2 == SqNorm(vec)
    IN  IF norm2 > 0 THEN [c |-> vec, s |-> norm2] ELSE [c |-> vec, s |-> 1]

Sgn(x) == IF x > 0 THEN 1 ELSE IF x < 0 THEN 0 - 1 ELSE 0

ZeroScore == [n |-> 0, d |-> 1]

\* main.cosine_similarity: dot over zip(v1, v2), norms over the whole vectors
cosine_similarity(v1, v2) ==
    LET m == Min2(Len(v1.c), Len(v2.c))
        dot == SumSeq([i \in 1..m |-> v1.c[i] * v2.c[i]])
        n1 == SqNorm(v1.c)
        n2 == SqNorm(v2.c)
    IN  IF n1 = 0 \/ n2 = 0 THEN ZeroScore
        ELSE [n |-> Sgn(dot) * dot * dot, d |-> n1 * n2]

\* order of scores
ScoreLess(x, y) == x.n * y.d < y.n * x.d
ScoreEq(x, y) == x.n * y.d = y.n * x.d
ScoreLeq(x, y) == x.n * y.d <= y.n * x.d

(***************************************************************************)
(* embedding_service.py: learned embedding and cosine                      *)
(***************************************************************************)
\* SentenceTransformer.encode: an external, deterministic model
Encode(text) ==
    CASE text = "a" -> [c |-> <<2, 0, 1>>, s |-> 1]
      [] text = "b" -> [c |-> <<0, 2, 1>>, s |-> 1]
      [] OTHER -> [c |-> <<0, 0, 1>>, s |-> 1]

\* a fallback of another dimension than the model's vectors
RandomVectors_OtherDim ==
    {[c |-> <<1, 0>>, s |-> 4], [c |-> <<0, 1>>, s |-> 4]}

\* np.random.random(384): some vector with components in [0, 1)
RandomVectors ==
    {[c |-> <<1, 0, 0>>, s |-> 4], [c |-> <<0, 1, 0>>, s |-> 4]}

\* generate_embedding: the model's vector, or a random one when encode raises
generate_embedding(text) == {Encode(text)} \cup RandomVectors

\* EmbeddingService.cosine_similarity: np.dot raises on a shape mismatch and
\* the except branch returns 0.0
ES_cosine_similarity(v1, v2) ==
    IF Len(v1.c) # Len(v2.c) THEN ZeroScore
    ELSE LET dot == SumSeq([i \in 1..Len(v1.c) |-> v1.c[i] * v2.c[i]])
             n1 == SqNorm(v1.c)
             n2 == SqNorm(v2.c)
         IN  IF n1 = 0 \/ n2 = 0 THEN ZeroScore
             ELSE [n |-> Sgn(dot) * dot * dot, d |-> n1 * n2]

(***************************************************************************)
(* The embeddings table                                                    *)
(***************************************************************************)
\* json.dumps / json.loads of a vector
JsonDumps(vec) == [parsable |-> TRUE, payload |-> vec]
JsonLoads(blob) == blob.payload

Row(item_type, item_id, blob, text) ==
    [item_type |-> item_type, item_id |-> item_id,
     vector_blob |-> blob, text_content |-> text]

RECURSIVE SelectSeq2(_, _, _)
\* the rows of a table that are not at key (item_type, item_id)
SelectSeq2(tab, item_type, item_id) ==
    IF tab = <<>> THEN <<>>
    ELSE LET rest == SelectSeq2(Tail(tab), item_type, item_id)
         IN  IF Head(tab).item_type = item_type /\ Head(tab).item_id = item_id
             THEN rest ELSE <<Head(tab)>> \o rest

\* INSERT OR REPLACE under UNIQUE(item_type, item_id): the row in conflict is
\* deleted and the new row gets the next AUTOINCREMENT id, which puts it last
\* in rowid order
InsertOrReplace(tab, row) ==
    Append(SelectSeq2(tab, row.item_type, row.item_id), row)

\* the rows at a key, in rowid order
RowsAt(tab, item_type, item_id) ==
    SelectSeq(tab, LAMBDA r : r.item_type = item_type /\ r.item_id = item_id)

HasKey(tab, item_type, item_id) == RowsAt(tab, item_type, item_id) # <<>>

(***************************************************************************)
(* Ranking                                                                 *)
(***************************************************************************)
RECURSIVE InsertDesc(_, _)
\* x put behind every item whose score is not smaller: what a stable
\* descending sort does with the next item of its input
InsertDesc(sorted, x) ==
    IF sorted = <<>> THEN <<x>>
    ELSE IF ScoreLess(Head(sorted).score, x.score) THEN <<x>> \o sorted
    ELSE <<Head(sorted)>> \o InsertDesc(Tail(sorted), x)

RECURSIVE SortFrom(_, _)
SortFrom(sorted, items) ==
    IF items = <<>> THEN sorted
    ELSE SortFrom(InsertDesc(sorted, Head(items)), Tail(items))

\* the sort left out: the items stay in scan order
SortByScoreDesc_Unsorted(items) == items

\* list.sort(key=score, reverse=True): stable, highest score first
SortByScoreDesc(items) == SortFrom(<<>>, items)

Item(item_type, item_id, score, text) ==
    [item_type |-> item_type, item_id |-> item_id, score |-> score, text |-> text]

(***************************************************************************)
(* EmbeddingService.search_similar_items                                   *)
(***************************************************************************)
\* the check of the fetched row left out: a missing summary is searched as
\* the empty text
ES_query_embedding_NoMissCheck(tab, query_text, summary_id) ==
    IF Truthy(query_text) THEN generate_embedding(query_text)
    ELSE IF Truthy(summary_id)
    THEN LET result == RowsAt(tab, "summary", summary_id)
         IN  IF result = <<>> THEN generate_embedding("")
             ELSE generate_embedding(result[1].text_content)
    ELSE {NoVec}

\* the query embedding: the set of vectors generate_embedding may return, or
\* {NoVec} where the method returns [] before the scan
ES_query_embedding(tab, query_text, summary_id) ==
    IF Truthy(query_text) THEN generate_embedding(query_text)
    ELSE IF Truthy(summary_id)
    THEN LET result == RowsAt(tab, "summary", summary_id)
         IN  IF result = <<>> \/ ~Truthy(result[1].text_content) THEN {NoVec}
             ELSE generate_embedding(result[1].text_content)
    ELSE {NoVec}

\* the rows the scan scores: text_content not empty, vector_blob parsable
ES_eligible(row) == Truthy(row.text_content) /\ row.vector_blob.parsable

\* the longest text a result carries in full
TextLimit == 200

\* text_content[:200] without the marker behind it
DisplayText_NoMarker(text_content) ==
    IF Len(text_content) > TextLimit THEN SubSeq(text_content, 1, TextLimit)
    ELSE text_content

\* text_content[:200] + '...' if len(text_content) > 200 else text_content
DisplayText(text_content) ==
    IF Len(text_content) > TextLimit THEN SubSeq(text_content, 1, TextLimit) \o "..."
    ELSE text_content

RECURSIVE ES_similarities(_, _)
ES_similarities(tab, query_embedding) ==
    IF tab = <<>> THEN <<>>
    ELSE LET row == Head(tab)
             rest == ES_similarities(Tail(tab), query_embedding)
         IN  IF ~ES_eligible(row) THEN rest
             ELSE <<Item(row.item_type, row.item_id,
                         ES_cosine_similarity(query_embedding, JsonLoads(row.vector_blob)),
                         DisplayText(row.text_content))>> \o rest

ES_search_similar_items(tab, query_embedding, top_k) ==
    IF query_embedding = NoVec THEN <<>>
    ELSE Slice(SortByScoreDesc(ES_similarities(tab, query_embedding)), top_k)

(***************************************************************************)
(* main.api_search_similar                                                 *)
(***************************************************************************)
\* get_embedding: the parsed vector of the row at the key, or None
get_embedding(tab, item_type, item_id) ==
    LET row == RowsAt(tab, item_type, item_id)
    IN  IF row = <<>> \/ ~row[1].vector_blob.parsable THEN NoVec
        ELSE JsonLoads(row[1].vector_blob)

\* get_all_embeddings: the rows whose vector_blob parses
get_all_embeddings(tab) == SelectSeq(tab, LAMBDA r : r.vector_blob.parsable)

main_query_vec(tab, message_text, summary_id, seed) ==
    IF Truthy(message_text) THEN text_to_vector(message_text, seed)
    ELSE IF Truthy(summary_id) THEN get_embedding(tab, "summary", summary_id)
    ELSE NoVec

\* the candidate is the referenced summary itself
main_is_self(row, summary_id) ==
    Truthy(summary_id) /\ row.item_type = "summary" /\ row.item_id = summary_id

RECURSIVE main_scored(_, _, _)
main_scored(candidates, query_vec, summary_id) ==
    IF candidates = <<>> THEN <<>>
    ELSE LET row == Head(candidates)
             rest == main_scored(Tail(candidates), query_vec, summary_id)
         IN  IF main_is_self(row, summary_id) THEN rest
             ELSE <<Item(row.item_type, row.item_id,
                         cosine_similarity(query_vec, JsonLoads(row.vector_blob)),
                         NoneVal)>> \o rest

\* scored[: max(1, min(req.top_k, 10))]
main_top(scored, top_k) == Slice(scored, Max2(1, Min2(top_k, TopKCap)))

main_related(tab, query_vec, summary_id, top_k) ==
    IF query_vec = NoVec THEN <<>>
    ELSE main_top(SortByScoreDesc(main_scored(get_all_embeddings(tab), query_vec, summary_id)),
                  top_k)

(***************************************************************************)
(* Store operations                                                        *)
(***************************************************************************)
NoResp == [op |-> "none"]

StoreResp(op, key, text, vec, ok) ==
    [op |-> op, item_type |-> key[1], item_id |-> key[2], text |-> text,
     vec |-> vec, ok |-> ok]

\* EmbeddingService.store_embedding committing the row before it fails
ES_store_embedding_PartialWrite(key, text, vec, dbFails) ==
    /\ vec \in generate_embedding(text)
    /\ embeddings' =
          InsertOrReplace(embeddings, Row(key[1], key[2], JsonDumps(vec), text))
    /\ resp' = StoreResp("es_store", key, text, vec, ~dbFails)
    /\ UNCHANGED <<hashSeed, indexVars, sideVars>>

\* EmbeddingService.store_embedding; dbFails: sqlite raises, the except branch
\* returns False
ES_store_embedding(key, text, vec, dbFails) ==
    /\ vec \in generate_embedding(text)
    /\ IF dbFails
       THEN embeddings' = embeddings
       ELSE embeddings' =
              InsertOrReplace(embeddings, Row(key[1], key[2], JsonDumps(vec), text))
    /\ resp' = StoreResp("es_store", key, text, vec, ~dbFails)
    /\ UNCHANGED <<hashSeed, indexVars, sideVars>>

\* main.store_embedding: the INSERT names no text_content, which stays NULL
main_store_embedding(key, text, dbFails) ==
    LET vec == text_to_vector(text, hashSeed)
    IN  /\ IF dbFails
           THEN embeddings' = embeddings
           ELSE embeddings' =
                  InsertOrReplace(embeddings, Row(key[1], key[2], JsonDumps(vec), NoneVal))
        /\ resp' = StoreResp("main_store", key, text, vec, ~dbFails)
        /\ UNCHANGED <<hashSeed, indexVars, sideVars>>

\* the retry loop of api_chandresh.store_embedding runs at most this often
MAX_RETRIES == 3

ApiStoreResp(key, text, status, attempts, vec) ==
    [op |-> "api_store", item_type |-> key[1], item_id |-> key[2], text |-> text,
     status |-> status, attempts |-> attempts, vec |-> vec]

\* api_chandresh.store_embedding: EmbeddingService.store_embedding is called
\* until it returns True, MAX_RETRIES times at most; attempts is the number of
\* calls made and success the outcome of the last one
api_store_embedding(key, text, attempts, success, vec) ==
    /\ IF ~Truthy(key[1]) \/ ~Truthy(key[2]) \/ ~Truthy(text)
       THEN /\ resp' = ApiStoreResp(key, text, "400", 0, NoVec)
            /\ embeddings' = embeddings
       ELSE /\ vec \in generate_embedding(text)
            /\ success \/ attempts = MAX_RETRIES
            /\ IF success
               THEN /\ embeddings' = InsertOrReplace(embeddings,
                                        Row(key[1], key[2], JsonDumps(vec), text))
                    /\ resp' = ApiStoreResp(key, text, "200", attempts, vec)
               ELSE /\ embeddings' = embeddings
                    /\ resp' = ApiStoreResp(key, text, "500", attempts, NoVec)
    /\ UNCHANGED <<hashSeed, indexVars, sideVars>>

\* a new process of main.py: str hashes are re-seeded
Restart ==
    /\ resp = NoResp
    /\ \E s \in Seeds : hashSeed' = s
    /\ hashSeed' # hashSeed
    /\ UNCHANGED <<embeddings, resp, indexVars, sideVars>>

\* the caller takes the response; the next request may start
Return ==
    /\ resp # NoResp
    /\ resp' = NoResp
    /\ UNCHANGED <<embeddings, hashSeed, indexVars, sideVars>>

SearchResp(op, text, sid, k, status, qvec, related) ==
    [op |-> op, text |-> text, summary_id |-> sid, top_k |-> k, status |-> status,
     query_vec |-> qvec, related |-> related]

\* a direct call of EmbeddingService.search_similar_items
ES_search(query_text, summary_id, top_k) ==
    /\ \E qe \in ES_query_embedding(embeddings, query_text, summary_id) :
          resp' = SearchResp("es_search", query_text, summary_id, top_k, "returned", qe,
                             ES_search_similar_items(embeddings, qe, top_k))
    /\ UNCHANGED <<embeddings, hashSeed, indexVars, sideVars>>

\* api_chandresh.search_similar: search_similar_items never raises, so the
\* first attempt of the retry loop answers
api_search_similar(summary_id, message_text, top_k) ==
    /\ IF ~Truthy(summary_id) /\ ~Truthy(message_text)
       THEN resp' = SearchResp("api_search", message_text, summary_id, top_k, "400",
                               NoVec, <<>>)
       ELSE LET text == IF message_text # NoneVal THEN message_text ELSE ""
                q == IF Truthy(summary_id) THEN NoneVal ELSE text
                sid == IF Truthy(summary_id) THEN summary_id ELSE NoneVal
            IN  \E qe \in ES_query_embedding(embeddings, q, sid) :
                  resp' = SearchResp("api_search", message_text, summary_id, top_k, "200",
                                     qe, ES_search_similar_items(embeddings, qe, top_k))
    /\ UNCHANGED <<embeddings, hashSeed, indexVars, sideVars>>

\* main.api_search_similar
main_api_search_similar(summary_id, message_text, top_k) ==
    /\ IF ~Truthy(summary_id) /\ ~Truthy(message_text)
       THEN resp' = SearchResp("main_search", message_text, summary_id, top_k, "400",
                               NoVec, <<>>)
       ELSE LET query_vec == main_query_vec(embeddings, message_text, summary_id, hashSeed)
            IN  resp' = SearchResp("main_search", message_text, summary_id, top_k, "200",
                                   query_vec,
                                   main_related(embeddings, query_vec, summary_id, top_k))
    /\ UNCHANGED <<embeddings, hashSeed, indexVars, sideVars>>

QueryTexts == Texts \cup {NoneVal}
QueryIds == ItemIds \cup {NoneVal}
\* an omitted or null top_k is the default 3 in both request models
TopKs == MinTopK .. MaxTopK

SearchES ==
    \E text \in QueryTexts, sid \in QueryIds, k \in TopKs :
        resp = NoResp /\ ES_search(text, sid, k)

SearchAPI ==
    \E text \in QueryTexts, sid \in QueryIds, k \in TopKs :
        resp = NoResp /\ api_search_similar(sid, text, k)

SearchMain ==
    \E text \in QueryTexts, sid \in QueryIds, k \in TopKs :
        resp = NoResp /\ main_api_search_similar(sid, text, k)

\* no bulk indexing is running
Idle == [pc |-> "idle"]

\* EmbeddingService.__init__: _model is None (0); loads counts the model
\* objects built so far, calls lists for each generate_embedding call the
\* model object it encoded with (0: none, the call fell back), and asleep is
\* the set of requests waiting in an await
NoModel == [model |-> 0, loads |-> 0, calls |-> <<>>, asleep |-> {}]

\* PipelineConfig(): every stage enabled
DefaultConfig ==
    [enable_summarization |-> TRUE, enable_task_generation |-> TRUE,
     enable_embedding_storage |-> TRUE]

InitSide ==
    /\ writers = <<>>
    /\ service = NoModel
    /\ coach_feedback = <<>>
    /\ pipeline_config = DefaultConfig

Init ==
    /\ embeddings = <<>>
    /\ hashSeed \in Seeds
    /\ resp = NoResp
    /\ summaries = <<>>
    /\ tasks = <<>>
    /\ indexer = Idle
    /\ InitSide

StoreES ==
    \E key \in Keys, text \in Texts, dbFails \in BOOLEAN :
        /\ resp = NoResp
        /\ \E vec \in generate_embedding(text) : ES_store_embedding(key, text, vec, dbFails)

StoreMain ==
    \E key \in Keys, text \in Texts, dbFails \in BOOLEAN :
        /\ resp = NoResp
        /\ main_store_embedding(key, text, dbFails)

StoreAPI ==
    \E key \in Keys, text \in Texts, attempts \in 1..MAX_RETRIES, success \in BOOLEAN :
        /\ resp = NoResp
        /\ \E vec \in generate_embedding(text) :
              api_store_embedding(key, text, attempts, success, vec)

Next ==
    \/ StoreES
    \/ StoreMain
    \/ StoreAPI
    \/ SearchES
    \/ SearchAPI
    \/ SearchMain
    \/ Restart
    \/ Return

Spec == Init /\ [][Next]_vars

(***************************************************************************)
(* A client that stores tasks t1, t2, ... through main.py, one after the   *)
(* other, and searches them by text: the table grows past the cap of       *)
(* main.api_search_similar.                                                *)
(***************************************************************************)
BulkIds == <<"t1", "t2", "t3", "t4", "t5", "t6", "t7", "t8", "t9", "t10", "t11", "t12",
             "t13">>

BulkStoreMain ==
    \E text \in {"a", "b"} :
        /\ resp = NoResp
        /\ Len(embeddings) < MaxBulk
        /\ main_store_embedding(<<"task", BulkIds[Len(embeddings) + 1]>>, text, FALSE)

BulkSearchMain ==
    \E k \in 1 .. (MaxBulk + 1) :
        resp = NoResp /\ main_api_search_similar(NoneVal, "a", k)

NextTopK ==
    \/ BulkStoreMain
    \/ BulkSearchMain
    \/ Return

SpecTopK == Init /\ [][NextTopK]_vars

(***************************************************************************)
(* What the claims speak about                                             *)
(***************************************************************************)
IsStore == resp.op \in {"es_store", "main_store"}
IsSearch == resp.op \in {"es_search", "api_search", "main_search"}
IsESSearch == resp.op \in {"es_search", "api_search"}

\* the search answered with a result rather than a rejection
Answered == IsSearch /\ resp.status # "400"

\* the entry point resolved (or tried to resolve) the query by reference
ByReference ==
    /\ IsSearch
    /\ Truthy(resp.summary_id)
    /\ resp.op \in {"es_search", "main_search"} => ~Truthy(resp.text)

\* the scored candidates of the answered search, in scan order
Candidates ==
    IF resp.op = "main_search"
    THEN main_scored(get_all_embeddings(embeddings), resp.query_vec, resp.summary_id)
    ELSE ES_similarities(embeddings, resp.query_vec)

SameItem(x, y) == x.item_type = y.item_type /\ x.item_id = y.item_id

Returned(c) == \E i \in 1..Len(resp.related) : SameItem(resp.related[i], c)

\* the text a search of EmbeddingService embedded as its query
ES_query_source ==
    IF resp.op = "es_search" /\ Truthy(resp.text) THEN resp.text
    ELSE IF resp.op = "api_search" /\ ~Truthy(resp.summary_id) THEN resp.text
    ELSE RowsAt(embeddings, "summary", resp.summary_id)[1].text_content

\* SELECT text_content ... WHERE item_id = ? AND item_type = ?; fetchone()
get_text(tab, item_type, item_id) ==
    LET result == RowsAt(tab, item_type, item_id)
    IN  IF result = <<>> THEN NoneVal ELSE result[1].text_content

(***************************************************************************)
(* Claims                                                                  *)
(***************************************************************************)

\* C1: after a successful store_embedding of either implementation the table
\* holds at most one record per (item_type, item_id), and the record at the
\* stored key carries the vector and the text of that store.
C1_UpsertLatest ==
    /\ \A t \in ItemTypes, i \in ItemIds : Len(RowsAt(embeddings, t, i)) <= 1
    /\ (IsStore /\ resp.ok) =>
          LET rows == RowsAt(embeddings, resp.item_type, resp.item_id)
          IN  /\ Len(rows) = 1
              /\ JsonLoads(rows[1].vector_blob) = resp.vec
              /\ rows[1].text_content = resp.text

\* C2: round trip: after a successful store of (item_type, item_id, text) by
\* either store operation, the stored source text of the key is that text.
C2_RoundTrip ==
    (IsStore /\ resp.ok) =>
        get_text(embeddings, resp.item_type, resp.item_id) = resp.text

\* C3: for top_k >= 1 a search whose query resolved returns at most top_k
\* results, and exactly min(top_k, number of eligible candidates).
C3_TopKCount ==
    (Answered /\ resp.top_k >= 1 /\ resp.query_vec # NoVec) =>
        /\ Len(resp.related) <= resp.top_k
        /\ Len(resp.related) = Min2(resp.top_k, Len(Candidates))

\* C4: the result of a search is ordered by non-increasing score, every
\* returned item is a scored candidate, and no candidate left out scores
\* strictly higher than a returned item.
C4_TopKRanking ==
    Answered =>
        /\ \A i, j \in 1..Len(resp.related) :
              i < j => ScoreLeq(resp.related[j].score, resp.related[i].score)
        /\ \A i \in 1..Len(resp.related) :
              \E c \in 1..Len(Candidates) : Candidates[c] = resp.related[i]
        /\ \A i, j \in 1..Len(resp.related) :
              i # j => ~SameItem(resp.related[i], resp.related[j])
        /\ \A c \in 1..Len(Candidates) :
              ~Returned(Candidates[c]) =>
                  \A i \in 1..Len(resp.related) :
                      ScoreLeq(Candidates[c].score, resp.related[i].score)

\* C4 witness: a search that returned an item and left out a candidate of
\* strictly lower score, where the higher one sits later in the table.
C4_Witness ==
    /\ Answered
    /\ Len(resp.related) = 1
    /\ Len(Candidates) = 2
    /\ SameItem(Candidates[2], resp.related[1])
    /\ ScoreLess(Candidates[1].score, Candidates[2].score)

\* C5: a search of EmbeddingService with top_k >= 1 ranks first a candidate
\* whose stored text is the text the query was resolved from, whenever such a
\* candidate exists.
C5_IdenticalTextFirst ==
    (IsESSearch /\ Answered /\ resp.query_vec # NoVec /\ resp.top_k >= 1
        /\ \E c \in 1..Len(Candidates) : Candidates[c].text = ES_query_source) =>
        /\ resp.related # <<>>
        /\ resp.related[1].text = ES_query_source

\* C6: a search resolved by reference to summary X never returns X itself,
\* at every entry point that accepts a reference.
C6_SelfExcluded ==
    (ByReference /\ Answered) =>
        \A i \in 1..Len(resp.related) :
            ~(resp.related[i].item_type = "summary"
              /\ resp.related[i].item_id = resp.summary_id)

\* C7: a search by reference to a summary that has no stored record is
\* answered with an empty result and not with an error, whatever the table
\* holds.
C7_ResolutionMiss ==
    (ByReference /\ ~HasKey(embeddings, "summary", resp.summary_id)) =>
        /\ resp.status \in {"returned", "200"}
        /\ resp.related = <<>>

\* C7 witness: a miss answered while the table holds a record with text.
C7_Witness ==
    /\ ByReference
    /\ ~HasKey(embeddings, "summary", resp.summary_id)
    /\ \E r \in 1..Len(embeddings) : ES_eligible(embeddings[r])
    /\ resp.top_k >= 1
    /\ resp.related = <<>>

\* C8: a search request with neither query text nor item reference is
\* rejected with a 4xx at every search entry point.
C8_NeitherRejected ==
    (IsSearch /\ ~Truthy(resp.text) /\ ~Truthy(resp.summary_id)) =>
        resp.status = "400"

\* C9: a search with top_k <= 0 is rejected or returns zero results.
C9_NonPositiveTopK ==
    (IsSearch /\ resp.top_k <= 0) =>
        (resp.status = "400" \/ resp.related = <<>>)

\* C10: when both query text and a reference are supplied, the query vector
\* is an embedding of the text, at every entry point.
C10_TextPrecedence ==
    (Answered /\ Truthy(resp.text) /\ Truthy(resp.summary_id)) =>
        IF resp.op = "main_search"
        THEN resp.query_vec = text_to_vector(resp.text, hashSeed)
        ELSE resp.query_vec \in generate_embedding(resp.text)

(***************************************************************************)
(* cosine_similarity on IEEE-754 doubles.                                  *)
(*                                                                         *)
(* A double is m * U^e with m a small integer, U = 2^600 and e in -1..1,   *)
(* or an infinity, or NaN.  At these values the arithmetic of doubles is   *)
(* exact but for three effects, which are the ones modelled: a product at  *)
(* scale U^2 overflows to an infinity, a product at scale U^-2 underflows  *)
(* to zero, and a sum of two scales keeps the larger term only.  The norm  *)
(* of a vector is carried as its square.                                   *)
(***************************************************************************)
\* the longest vector handed to cosine_similarity
MaxCosLen == 2

Scales == {0 - 1, 0, 1}

Num(m, e) == [k |-> "num", m |-> m, e |-> IF m = 0 THEN 0 ELSE e]
Inf(sign) == [k |-> "inf", m |-> sign, e |-> 0]
NaN == [k |-> "nan", m |-> 0, e |-> 0]

\* a * b
FMul(x, y) ==
    IF x.k = "nan" \/ y.k = "nan" THEN NaN
    ELSE IF x.k = "inf" \/ y.k = "inf"
         THEN IF x.m = 0 \/ y.m = 0 THEN NaN ELSE Inf(Sgn(x.m) * Sgn(y.m))
    ELSE IF x.m * y.m = 0 THEN Num(0, 0)
    ELSE IF x.e + y.e > 1 THEN Inf(Sgn(x.m * y.m))
    ELSE IF x.e + y.e < 0 - 1 THEN Num(0, 0)
    ELSE Num(x.m * y.m, x.e + y.e)

\* a + b
FAdd(x, y) ==
    IF x.k = "nan" \/ y.k = "nan" THEN NaN
    ELSE IF x.k = "inf" /\ y.k = "inf" THEN (IF x.m = y.m THEN x ELSE NaN)
    ELSE IF x.k = "inf" THEN x
    ELSE IF y.k = "inf" THEN y
    ELSE IF x.m = 0 THEN y
    ELSE IF y.m = 0 THEN x
    ELSE IF x.e = y.e THEN Num(x.m + y.m, x.e)
    ELSE IF x.e > y.e THEN x ELSE y

RECURSIVE FSum(_)
\* sum(...) of a sequence of doubles
FSum(s) == IF s = <<>> THEN Num(0, 0) ELSE FAdd(FSum(SubSeq(s, 1, Len(s) - 1)), s[Len(s)])

\* the doubles of the vector c * U^e
Floats(v) == [i \in 1..Len(v.c) |-> Num(v.c[i], v.e)]

\* sum(a * b for a, b in zip(v1, v2))
FDot(v1, v2) ==
    LET a == Floats(v1)
        b == Floats(v2)
    IN  FSum([i \in 1..Min2(Len(a), Len(b)) |-> FMul(a[i], b[i])])

\* sum(a * a for a in v): the square of the norm
FSqNorm(v) == FDot(v, v)

\* what a call of cosine_similarity gives: a score n / d as in ZeroScore, or
\* NaN, or an exception; divided tells whether the division was evaluated
CosResult(k, n, d, divided) == [k |-> k, n |-> n, d |-> d, divided |-> divided]
CosZero == CosResult("num", 0, 1, FALSE)

\* dot / (n1 * n2) for norms that are not zero
FDivide(dot, s1, s2) ==
    IF dot.k = "nan" THEN CosResult("nan", 0, 1, TRUE)
    ELSE IF s1.k = "inf" \/ s2.k = "inf"
         THEN IF dot.k = "inf" THEN CosResult("nan", 0, 1, TRUE)
              ELSE CosResult("num", 0, 1, TRUE)
    ELSE CosResult("num", Sgn(dot.m) * dot.m * dot.m, s1.m * s2.m, TRUE)

\* main.cosine_similarity without its test of the norms: 0 / 0 raises
float_cosine_similarity_NoZeroCheck(v1, v2) ==
    LET s1 == FSqNorm(v1)
        s2 == FSqNorm(v2)
    IN  IF s1 = Num(0, 0) \/ s2 = Num(0, 0) THEN CosResult("raise", 0, 1, TRUE)
        ELSE FDivide(FDot(v1, v2), s1, s2)

\* main.cosine_similarity dividing by one norm only
float_cosine_similarity_OneNorm(v1, v2) ==
    LET s1 == FSqNorm(v1)
        s2 == FSqNorm(v2)
    IN  IF s1 = Num(0, 0) \/ s2 = Num(0, 0) THEN CosZero
        ELSE FDivide(FDot(v1, v2), s1, Num(1, 0))

\* main.cosine_similarity on doubles
float_cosine_similarity(v1, v2) ==
    LET s1 == FSqNorm(v1)
        s2 == FSqNorm(v2)
    IN  IF s1 = Num(0, 0) \/ s2 = Num(0, 0) THEN CosZero
        ELSE FDivide(FDot(v1, v2), s1, s2)

\* EmbeddingService.cosine_similarity on doubles: np.dot raises on a shape
\* mismatch and the except branch returns 0.0
ES_float_cosine_similarity(v1, v2) ==
    IF Len(v1.c) # Len(v2.c) THEN CosZero
    ELSE float_cosine_similarity(v1, v2)

\* the vectors handed to cosine_similarity
FloatVectors ==
    {[c |-> c, e |-> e] :
        c \in UNION {[1..n -> {0 - 1, 0, 1}] : n \in 1..MaxCosLen}, e \in Scales}

CosResp(op, v1, v2, result) == [op |-> op, v1 |-> v1, v2 |-> v2, result |-> result]

CosineMain ==
    /\ resp = NoResp
    /\ \E v1 \in FloatVectors, v2 \in FloatVectors :
          resp' = CosResp("main_cosine", v1, v2, float_cosine_similarity(v1, v2))
    /\ UNCHANGED <<embeddings, hashSeed, indexVars, sideVars>>

CosineES ==
    /\ resp = NoResp
    /\ \E v1 \in FloatVectors, v2 \in FloatVectors :
          resp' = CosResp("es_cosine", v1, v2, ES_float_cosine_similarity(v1, v2))
    /\ UNCHANGED <<embeddings, hashSeed, indexVars, sideVars>>

NextCos ==
    \/ CosineMain
    \/ CosineES
    \/ Return

SpecCos == Init /\ [][NextCos]_vars

IsCosine == resp.op \in {"main_cosine", "es_cosine"}

\* the dot product and a norm as the function computes them
ComputedDotZero == FDot(resp.v1, resp.v2) = Num(0, 0)
ComputedNormZero == FSqNorm(resp.v1) = Num(0, 0) \/ FSqNorm(resp.v2) = Num(0, 0)

C12_SelfSimilarity ==
    (IsCosine /\ resp.v1 = resp.v2 /\ \E i \in 1..Len(resp.v1.c) : resp.v1.c[i] # 0) =>
        /\ resp.result.k = "num"
        /\ resp.result.n = resp.result.d

\* C12 amended: cosine_similarity(v, v) is 1.0 for every vector v whose
\* squared norm, as computed in doubles, is neither zero nor infinite.
C12_SelfSimilarityInRange ==
    (IsCosine /\ resp.v1 = resp.v2 /\ FSqNorm(resp.v1).k = "num" /\ FSqNorm(resp.v1).m > 0) =>
        /\ resp.result.k = "num"
        /\ resp.result.n = resp.result.d

\* C12 witness: v = (1, -1) against itself scores 4 / 4.
C12_Witness ==
    /\ IsCosine
    /\ resp.v1 = resp.v2
    /\ resp.v1.c = <<1, 0 - 1>>
    /\ resp.result = CosResult("num", 4, 4, TRUE)

(***************************************************************************)
(* text_to_vector called on one text several times, in one run of main.py  *)
(* or in several: a restart re-seeds the str hash between two calls.       *)
(***************************************************************************)
\* calls of text_to_vector on one text
MaxCalls == 3

HashTexts == Texts \cup {"a b", "a a"}

HashCall(seed, text) == [run |-> seed, vec |-> text_to_vector(text, seed)]

HashResp(text, calls) == [op |-> "text_to_vector", text |-> text, calls |-> calls]

TextToVector ==
    \E text \in HashTexts :
        /\ resp = NoResp
        /\ resp' = HashResp(text, <<HashCall(hashSeed, text)>>)
        /\ UNCHANGED <<embeddings, hashSeed, indexVars, sideVars>>

TextToVectorAgain ==
    /\ resp # NoResp
    /\ Len(resp.calls) < MaxCalls
    /\ resp' = HashResp(resp.text, Append(resp.calls, HashCall(hashSeed, resp.text)))
    /\ UNCHANGED <<embeddings, hashSeed, indexVars, sideVars>>

\* main.py is started anew between two calls
RestartBetweenCalls ==
    /\ resp # NoResp
    /\ \E s \in Seeds : hashSeed' = s
    /\ hashSeed' # hashSeed
    /\ UNCHANGED <<embeddings, resp, indexVars, sideVars>>

NextHash ==
    \/ TextToVector
    \/ TextToVectorAgain
    \/ RestartBetweenCalls
    \/ Return

SpecHash == Init /\ [][NextHash]_vars

\* C13: text_to_vector(t) has exactly Dim components for every text, the
\* empty text gives the zero vector, and all calls on one text give the same
\* vector, in one run or across runs.
C13_HashingDeterministic ==
    resp # NoResp =>
        /\ \A i \in 1..Len(resp.calls) : Len(resp.calls[i].vec.c) = Dim
        /\ resp.text = "" =>
              \A i \in 1..Len(resp.calls) : SqNorm(resp.calls[i].vec.c) = 0
        /\ \A i, j \in 1..Len(resp.calls) : resp.calls[i].vec = resp.calls[j].vec

(***************************************************************************)
(* The fallback of generate_embedding                                      *)
(***************************************************************************)
\* the call of generate_embedding behind the response took the except branch
StoredFallback == resp.op = "es_store" /\ resp.vec \in RandomVectors
SearchedFallback == IsESSearch /\ resp.query_vec \in RandomVectors

C15_FallbackDeterministic ==
    SearchedFallback =>
        \A r \in 1..Len(embeddings) :
            (/\ embeddings[r].text_content = ES_query_source
             /\ JsonLoads(embeddings[r].vector_blob) \in RandomVectors) =>
                JsonLoads(embeddings[r].vector_blob) = resp.query_vec

(***************************************************************************)
(* Corrupt records: the vector_blob of a stored row is damaged outside the *)
(* program, so that json.loads raises on it.                               *)
(***************************************************************************)
Unparsable == [parsable |-> FALSE, payload |-> NoVec]

CorruptRecord ==
    \E r \in 1..Len(embeddings) :
        /\ resp = NoResp
        /\ embeddings[r].vector_blob.parsable
        /\ embeddings' = [embeddings EXCEPT ![r].vector_blob = Unparsable]
        /\ UNCHANGED <<hashSeed, resp, indexVars, sideVars>>

NextCorrupt ==
    \/ StoreES
    \/ StoreMain
    \/ CorruptRecord
    \/ SearchES
    \/ SearchAPI
    \/ SearchMain
    \/ Return

SpecCorrupt == Init /\ [][NextCorrupt]_vars

\* the table without its corrupt records
WithoutCorrupt(tab) == SelectSeq(tab, LAMBDA r : r.vector_blob.parsable)

\* what the answered search returns on table tab, with the query vector
\* resp.query_vec wherever the query resolves
ResultOn(tab) ==
    IF resp.op = "main_search"
    THEN main_related(tab, main_query_vec(tab, resp.text, resp.summary_id, hashSeed),
                      resp.summary_id, resp.top_k)
    ELSE LET byId == resp.op = "api_search" /\ Truthy(resp.summary_id)
             q == IF byId THEN NoneVal ELSE resp.text
             sid == IF resp.op = "api_search" /\ ~byId THEN NoneVal ELSE resp.summary_id
         IN  IF ES_query_embedding(tab, q, sid) = {NoVec} THEN <<>>
             ELSE ES_search_similar_items(tab, resp.query_vec, resp.top_k)

\* C16: a search completes whatever records are corrupt, and its result is
\* the result of the same search on the table without the corrupt records.
C16_CorruptSkipped ==
    Answered =>
        /\ resp.status \in {"returned", "200"}
        /\ resp.related = ResultOn(WithoutCorrupt(embeddings))

(***************************************************************************)
(* Storage failure                                                         *)
(***************************************************************************)
\* C17: store_embedding returns a boolean; when it returns False the table is
\* as before the call, and when it returns True the table holds the record of
\* the call at its key.
C17_StoreOutcome ==
    [][(resp = NoResp /\ resp'.op \in {"es_store", "main_store"}) =>
          /\ resp'.ok \in BOOLEAN
          /\ IF resp'.ok
             THEN LET rows == RowsAt(embeddings', resp'.item_type, resp'.item_id)
                  IN  Len(rows) = 1 /\ JsonLoads(rows[1].vector_blob) = resp'.vec
             ELSE embeddings' = embeddings]_vars

\* C17 witness: a store failed on a table that holds records.
C17_Witness == IsStore /\ ~resp.ok /\ embeddings # <<>>

\* the HTTP store operation met a failing write
HttpStoreFailed ==
    \/ resp.op = "main_store" /\ ~resp.ok
    \/ resp.op = "api_store" /\ (resp.attempts > 1 \/ resp.status = "500")

\* the response body is {"stored": false}
ReportsStoredFalse == resp.op = "main_store" /\ resp.ok = FALSE

\* calls of the core's store_embedding the request made
WriteAttempts == IF resp.op = "api_store" THEN resp.attempts ELSE 1

\* C18: an HTTP store request whose write fails answers stored=false, and it
\* attempted the write once.
C18_NoRetry == HttpStoreFailed => (ReportsStoredFalse /\ WriteAttempts = 1)

(***************************************************************************)
(* Bulk indexing: index_existing_summaries and index_existing_tasks.       *)
(*                                                                         *)
(* A run reads the rows of its source table that have no embedding, in one *)
(* query, and then calls store_embedding for each of them, one transaction *)
(* per call.  Other processes on the same database (main.py here) store    *)
(* between these steps.  A source row is [id, text]: summary_id and        *)
(* summary_text of summaries, task_id and task_text of tasks.              *)
(***************************************************************************)
SourceRow(id, text) == [id |-> id, text |-> text]

\* the contents of summaries and of tasks before indexing
SummaryTables ==
    {<<>>, <<SourceRow("s1", "a")>>, <<SourceRow("s2", "b")>>,
     <<SourceRow("s1", "a"), SourceRow("s2", "b")>>,
     <<SourceRow("s2", "a"), SourceRow("s1", "b")>>}
TaskTables == {<<>>, <<SourceRow("s1", "a")>>}

SourceTable(item_type) == IF item_type = "summary" THEN summaries ELSE tasks

\* SELECT ... FROM summaries s LEFT JOIN embeddings e ON s.summary_id =
\* e.item_id AND e.item_type = 'summary' WHERE e.id IS NULL
Unindexed(src, tab, item_type) ==
    SelectSeq(src, LAMBDA r : ~HasKey(tab, item_type, r.id))

\* a run: the rows read and not yet stored and the count of the calls of
\* store_embedding that returned True, which the run returns when done; for
\* the claims, whether the query succeeded, how many rows it read and how
\* many calls of store_embedding returned False
Run(pc, item_type, pending, indexed_count, queried, read, failures) ==
    [pc |-> pc, item_type |-> item_type, pending |-> pending,
     indexed_count |-> indexed_count, queried |-> queried, read |-> read,
     failures |-> failures]

\* the run up to the end of its query; queryFails: sqlite raises and the
\* except branch returns 0
IndexStart(item_type, queryFails) ==
    LET unindexed == Unindexed(SourceTable(item_type), embeddings, item_type)
    IN  /\ indexer = Idle
        /\ indexer' =
              IF queryFails THEN Run("done", item_type, <<>>, 0, FALSE, 0, 0)
              ELSE Run(IF unindexed = <<>> THEN "done" ELSE "writing", item_type,
                       unindexed, 0, TRUE, Len(unindexed), 0)
        /\ UNCHANGED <<embeddings, hashSeed, resp, summaries, tasks, sideVars>>

\* a turn of the loop that counts without storing
IndexWrite_CountOnly(vec, dbFails) ==
    LET rest == Tail(indexer.pending)
    IN  /\ indexer.pc = "writing"
        /\ vec \in generate_embedding(Head(indexer.pending).text)
        /\ indexer' = Run(IF rest = <<>> THEN "done" ELSE "writing", indexer.item_type,
                          rest, indexer.indexed_count + (IF dbFails THEN 0 ELSE 1),
                          indexer.queried, indexer.read,
                          indexer.failures + (IF dbFails THEN 1 ELSE 0))
        /\ UNCHANGED <<embeddings, hashSeed, resp, summaries, tasks, sideVars>>

\* one turn of the loop: store_embedding(item_type, id, text) on the next row
\* read, counted when it returns True; after the last row the run returns
IndexWrite(vec, dbFails) ==
    LET row == Head(indexer.pending)
        rest == Tail(indexer.pending)
    IN  /\ indexer.pc = "writing"
        /\ vec \in generate_embedding(row.text)
        /\ embeddings' =
              IF dbFails THEN embeddings
              ELSE InsertOrReplace(embeddings,
                       Row(indexer.item_type, row.id, JsonDumps(vec), row.text))
        /\ indexer' = Run(IF rest = <<>> THEN "done" ELSE "writing", indexer.item_type,
                          rest, indexer.indexed_count + (IF dbFails THEN 0 ELSE 1),
                          indexer.queried, indexer.read,
                          indexer.failures + (IF dbFails THEN 1 ELSE 0))
        /\ UNCHANGED <<hashSeed, resp, summaries, tasks, sideVars>>

\* the caller takes the count
IndexReturn ==
    /\ indexer # Idle
    /\ indexer.pc = "done"
    /\ indexer' = Idle
    /\ UNCHANGED <<embeddings, hashSeed, resp, summaries, tasks, sideVars>>

IndexSummaries ==
    \E queryFails \in BOOLEAN :
        indexer = Idle /\ IndexStart("summary", queryFails)

IndexTasks ==
    \E queryFails \in BOOLEAN :
        indexer = Idle /\ IndexStart("task", queryFails)

IndexStep ==
    /\ indexer # Idle
    /\ indexer.pc = "writing"
    /\ \E dbFails \in BOOLEAN :
          \E vec \in generate_embedding(Head(indexer.pending).text) :
              IndexWrite(vec, dbFails)

InitIndex ==
    /\ embeddings = <<>>
    /\ hashSeed = 0
    /\ resp = NoResp
    /\ summaries \in SummaryTables
    /\ tasks \in TaskTables
    /\ indexer = Idle
    /\ InitSide

NextIndex ==
    \/ IndexSummaries
    \/ IndexTasks
    \/ IndexStep
    \/ IndexReturn
    \/ StoreMain
    \/ Return

SpecIndex == InitIndex /\ [][NextIndex]_vars

IndexDone == indexer # Idle /\ indexer.pc = "done"

\* every row of the source table has exactly one embedding of the run's type
AllIndexed ==
    \A i \in 1..Len(SourceTable(indexer.item_type)) :
        Len(RowsAt(embeddings, indexer.item_type,
                   SourceTable(indexer.item_type)[i].id)) = 1

\* C19: a run returns the number of rows that had no embedding of its type
\* and were stored successfully; when its query and every store succeeded,
\* every row of the source table has exactly one embedding of that type and
\* the count is the number of rows that had none.
C19_IndexCount ==
    IndexDone =>
        /\ indexer.indexed_count = indexer.read - indexer.failures
        /\ (indexer.queried /\ indexer.failures = 0) =>
              (AllIndexed /\ indexer.indexed_count = indexer.read)

\* C19 witness: a run that found two summaries without embedding, stored
\* both and returned 2.
C19_Witness ==
    /\ IndexDone
    /\ indexer.item_type = "summary"
    /\ indexer.queried
    /\ indexer.read = 2
    /\ indexer.failures = 0
    /\ indexer.indexed_count = 2
    /\ AllIndexed

\* C20: in every interleaving with store_embedding calls of other processes a
\* run writes only keys that have no record at the moment of the write, and
\* after a run whose query and stores all succeeded a second run finds
\* nothing to index.
C20_SkipPolicy ==
    /\ [][(indexer # Idle /\ indexer.pc = "writing" /\ indexer' # indexer
              /\ embeddings' # embeddings) =>
            ~HasKey(embeddings, indexer.item_type, Head(indexer.pending).id)]_vars
    /\ []((IndexDone /\ indexer.queried /\ indexer.failures = 0) =>
            Unindexed(SourceTable(indexer.item_type), embeddings, indexer.item_type) = <<>>)

(***************************************************************************)
(* Concurrent writers: store_embedding calls of several processes on one   *)
(* database file.  A call evaluates its arguments (vector, blob, timestamp)*)
(* in its own process, executes INSERT OR REPLACE inside the transaction   *)
(* that sqlite3 opens for it, and commits.  SQLite lets one connection     *)
(* write at a time and shows readers committed rows only, so `embeddings`  *)
(* is what a reader can observe.  The timestamp column is read by no code; *)
(* only this specification carries it.                                     *)
(***************************************************************************)
MaxClock == 2
Writers == {1, 2}
ConcTexts == {"a", "b"}
\* the key the concurrent calls write
ConcKey == <<"summary", "s1">>

NoCall == [pc |-> "idle"]

\* the row a call has bound to its INSERT OR REPLACE statement
TimedRow(item_type, item_id, blob, ts, text) ==
    [item_type |-> item_type, item_id |-> item_id, vector_blob |-> blob,
     timestamp |-> ts, text_content |-> text]

\* INSERT OR REPLACE without the UNIQUE(item_type, item_id) constraint
InsertOrReplaceRow_NoUnique(tab, row) == Append(tab, row)

\* the INSERT OR REPLACE statement of either store_embedding
InsertOrReplaceRow(tab, row) == InsertOrReplace(tab, row)

ConcInit ==
    /\ embeddings = <<>>
    /\ hashSeed = 0
    /\ resp = NoResp
    /\ summaries = <<>>
    /\ tasks = <<>>
    /\ indexer = Idle
    /\ writers = [clock |-> 0, lock |-> 0, calls |-> [w \in Writers |-> NoCall]]
    /\ service = NoModel
    /\ coach_feedback = <<>>
    /\ pipeline_config = DefaultConfig

ConcFrame == UNCHANGED <<hashSeed, resp, indexVars, service, coach_feedback, pipeline_config>>

\* EmbeddingService.store_embedding up to the execute: generate_embedding,
\* json.dumps and datetime.now() are evaluated; tick: the clock has moved on
\* since the last call read it
ConcBeginES(w, key, text, vec, tick) ==
    /\ writers.calls[w] = NoCall
    /\ vec \in generate_embedding(text)
    /\ tick => writers.clock < MaxClock
    /\ LET now == writers.clock + (IF tick THEN 1 ELSE 0)
       IN  writers' =
             [writers EXCEPT !.clock = now,
                             !.calls[w] =
                                 [pc |-> "bound",
                                  row |-> TimedRow(key[1], key[2], JsonDumps(vec), now, text)]]
    /\ UNCHANGED embeddings
    /\ ConcFrame

\* main.store_embedding up to db_execute; seed: the hash seed of the process
\* the call runs in
ConcBeginMain(w, key, text, seed, tick) ==
    /\ writers.calls[w] = NoCall
    /\ tick => writers.clock < MaxClock
    /\ LET now == writers.clock + (IF tick THEN 1 ELSE 0)
           vec == text_to_vector(text, seed)
       IN  writers' =
             [writers EXCEPT !.clock = now,
                             !.calls[w] =
                                 [pc |-> "bound",
                                  row |-> TimedRow(key[1], key[2], JsonDumps(vec), now, NoneVal)]]
    /\ UNCHANGED embeddings
    /\ ConcFrame

\* cursor.execute: the statement runs inside the connection's transaction and
\* takes the write lock; nothing is visible to other connections yet
ConcExecute(w) ==
    /\ writers.calls[w].pc = "bound"
    /\ writers.lock = 0
    /\ writers' = [writers EXCEPT !.lock = w, !.calls[w].pc = "executed"]
    /\ UNCHANGED embeddings
    /\ ConcFrame

\* cursor.execute while another connection holds the write lock, after the
\* busy timeout: sqlite3.OperationalError, the call returns False
ConcBusy(w) ==
    /\ writers.calls[w].pc = "bound"
    /\ writers.lock \notin {0, w}
    /\ writers' = [writers EXCEPT !.calls[w] = NoCall]
    /\ UNCHANGED embeddings
    /\ ConcFrame

\* conn.commit(): the row becomes visible, the lock is released, the call
\* returns True
ConcCommit(w) ==
    /\ writers.calls[w].pc = "executed"
    /\ writers.lock = w
    /\ embeddings' = InsertOrReplaceRow(embeddings, writers.calls[w].row)
    /\ writers' = [writers EXCEPT !.lock = 0, !.calls[w] = NoCall]
    /\ ConcFrame

ConcStoreES ==
    \E w \in Writers, text \in ConcTexts, tick \in BOOLEAN :
        \E vec \in generate_embedding(text) : ConcBeginES(w, ConcKey, text, vec, tick)

ConcStoreMain ==
    \E w \in Writers, text \in ConcTexts, seed \in Seeds, tick \in BOOLEAN :
        ConcBeginMain(w, ConcKey, text, seed, tick)

ConcExecuteAny == \E w \in Writers : ConcExecute(w)

ConcBusyAny == \E w \in Writers : ConcBusy(w)

ConcCommitAny == \E w \in Writers : ConcCommit(w)

NextConc ==
    \/ ConcStoreES
    \/ ConcStoreMain
    \/ ConcExecuteAny
    \/ ConcBusyAny
    \/ ConcCommitAny

SpecConc == ConcInit /\ [][NextConc]_vars

RowSet(tab) == {tab[i] : i \in 1..Len(tab)}

\* the calls that are past their execute: their rows are what a commit can
\* make visible
ExecutedRows ==
    {writers.calls[w].row : w \in {x \in Writers : writers.calls[x].pc = "executed"}}

\* two calls on one key are under way at once
Overlapping ==
    \E w1, w2 \in Writers :
        /\ w1 # w2
        /\ writers.calls[w1].pc # "idle"
        /\ writers.calls[w2].pc # "idle"
        /\ writers.calls[w1].row.item_type = writers.calls[w2].row.item_type
        /\ writers.calls[w1].row.item_id = writers.calls[w2].row.item_id
        /\ writers.calls[w1].row # writers.calls[w2].row

\* C21: with store_embedding calls of several processes interleaved on one
\* key, every committed state holds at most one row per key, every row has a
\* parsable vector, and every row that appears is, in vector, text and
\* timestamp, the row one single call bound to its statement.
C21_AtomicStore ==
    /\ [](\A key \in Keys :
            /\ Len(RowsAt(embeddings, key[1], key[2])) <= 1
            /\ \A i \in 1..Len(embeddings) : embeddings[i].vector_blob.parsable)
    /\ [][\A r \in RowSet(embeddings') \ RowSet(embeddings) : r \in ExecutedRows]_vars

\* a call has committed over the row of another call on the same key while
\* a third row for that key was bound but not yet written
C21_Witness ==
    /\ Overlapping
    /\ \E w \in Writers, i \in 1..Len(embeddings) :
          /\ writers.calls[w].pc # "idle"
          /\ embeddings[i].item_type = writers.calls[w].row.item_type
          /\ embeddings[i].item_id = writers.calls[w].row.item_id
          /\ embeddings[i].text_content # writers.calls[w].row.text_content
          /\ embeddings[i].timestamp < writers.calls[w].row.timestamp

(***************************************************************************)
(* Repeated searches                                                       *)
(***************************************************************************)
\* every result the answered request can get when it is issued again on
\* table tab in the same process
ResultsOn(tab) ==
    IF resp.op = "main_search"
    THEN {main_related(tab, main_query_vec(tab, resp.text, resp.summary_id, hashSeed),
                       resp.summary_id, resp.top_k)}
    ELSE LET byId == resp.op = "api_search" /\ Truthy(resp.summary_id)
             q == IF byId THEN NoneVal ELSE resp.text
             sid == IF resp.op = "api_search" /\ ~byId THEN NoneVal ELSE resp.summary_id
         IN  {IF qe = NoVec THEN <<>> ELSE ES_search_similar_items(tab, qe, resp.top_k) :
                 qe \in ES_query_embedding(tab, q, sid)}

\* table tab after the record in row i was stored again with the text and
\* vector it has
Restored(tab, i) == InsertOrReplace(tab, tab[i])

\* C22: an answered search gets the same items in the same order when it is
\* issued again on the unchanged table, and also after any record was stored
\* again with the text and vector it already had.
C22_StableOrder ==
    (Answered /\ resp.status \in {"returned", "200"}) =>
        /\ ResultsOn(embeddings) = {resp.related}
        /\ \A i \in 1..Len(embeddings) :
              ResultsOn(Restored(embeddings, i)) = {resp.related}

(***************************************************************************)
(* Searches while the database cannot be reached: sqlite3.connect or the   *)
(* first execute of the request raises.  failed records that the request   *)
(* got as far as a database access and that the access raised.             *)
(***************************************************************************)
FailResp(r, failed) ==
    [op |-> r.op, text |-> r.text, summary_id |-> r.summary_id, top_k |-> r.top_k,
     status |-> r.status, query_vec |-> r.query_vec, related |-> r.related,
     failed |-> failed]

\* the request reaches a database access
ES_touches_db(query_text, summary_id) == Truthy(query_text) \/ Truthy(summary_id)

\* EmbeddingService.search_similar_items; dbFails: the exception lands in the
\* outer except branch, which returns []
ES_search_db(query_text, summary_id, top_k, dbFails) ==
    /\ IF dbFails /\ ES_touches_db(query_text, summary_id)
       THEN \E qe \in (IF Truthy(query_text) THEN generate_embedding(query_text) ELSE {NoVec}) :
               resp' = FailResp(SearchResp("es_search", query_text, summary_id, top_k,
                                           "returned", qe, <<>>), TRUE)
       ELSE \E qe \in ES_query_embedding(embeddings, query_text, summary_id) :
               resp' = FailResp(SearchResp("es_search", query_text, summary_id, top_k,
                                           "returned", qe,
                                           IF qe = NoVec THEN <<>>
                                           ELSE ES_search_similar_items(embeddings, qe, top_k)),
                                FALSE)
    /\ UNCHANGED <<embeddings, hashSeed, indexVars, sideVars>>

\* api_chandresh.search_similar: the [] of a failed search_similar_items is
\* answered like any other result, with 200
api_search_similar_db(summary_id, message_text, top_k, dbFails) ==
    /\ IF ~Truthy(summary_id) /\ ~Truthy(message_text)
       THEN resp' = FailResp(SearchResp("api_search", message_text, summary_id, top_k,
                                        "400", NoVec, <<>>), FALSE)
       ELSE LET text == IF message_text # NoneVal THEN message_text ELSE ""
                q == IF Truthy(summary_id) THEN NoneVal ELSE text
                sid == IF Truthy(summary_id) THEN summary_id ELSE NoneVal
            IN  IF dbFails
                THEN \E qe \in (IF Truthy(q) THEN generate_embedding(q) ELSE {NoVec}) :
                        resp' = FailResp(SearchResp("api_search", message_text, summary_id,
                                                    top_k, "200", qe, <<>>), TRUE)
                ELSE \E qe \in ES_query_embedding(embeddings, q, sid) :
                        resp' = FailResp(SearchResp("api_search", message_text, summary_id,
                                                    top_k, "200", qe,
                                                    IF qe = NoVec THEN <<>>
                                                    ELSE ES_search_similar_items(embeddings, qe, top_k)),
                                         FALSE)
    /\ UNCHANGED <<embeddings, hashSeed, indexVars, sideVars>>

\* main.api_search_similar: db_query_one / db_query_all raise through the
\* handler, which the framework answers with 500
main_api_search_similar_db(summary_id, message_text, top_k, dbFails) ==
    /\ IF ~Truthy(summary_id) /\ ~Truthy(message_text)
       THEN resp' = FailResp(SearchResp("main_search", message_text, summary_id, top_k,
                                        "400", NoVec, <<>>), FALSE)
       ELSE IF dbFails
       THEN resp' = FailResp(SearchResp("main_search", message_text, summary_id, top_k,
                                        "500",
                                        IF Truthy(message_text)
                                        THEN text_to_vector(message_text, hashSeed) ELSE NoVec,
                                        <<>>), TRUE)
       ELSE LET query_vec == main_query_vec(embeddings, message_text, summary_id, hashSeed)
            IN  resp' = FailResp(SearchResp("main_search", message_text, summary_id, top_k,
                                            "200", query_vec,
                                            main_related(embeddings, query_vec, summary_id, top_k)),
                                 FALSE)
    /\ UNCHANGED <<embeddings, hashSeed, indexVars, sideVars>>

SearchESDb ==
    \E text \in QueryTexts, sid \in QueryIds, k \in TopKs, dbFails \in BOOLEAN :
        resp = NoResp /\ ES_search_db(text, sid, k, dbFails)

SearchAPIDb ==
    \E text \in QueryTexts, sid \in QueryIds, k \in TopKs, dbFails \in BOOLEAN :
        resp = NoResp /\ api_search_similar_db(sid, text, k, dbFails)

SearchMainDb ==
    \E text \in QueryTexts, sid \in QueryIds, k \in TopKs, dbFails \in BOOLEAN :
        resp = NoResp /\ main_api_search_similar_db(sid, text, k, dbFails)

NextFail ==
    \/ StoreES
    \/ StoreMain
    \/ SearchESDb
    \/ SearchAPIDb
    \/ SearchMainDb
    \/ Return

SpecFail == Init /\ [][NextFail]_vars

\* C23: a search ends with a result, a 4xx or a 5xx; it ends with a 5xx only
\* when its database access failed, and a search whose database access failed
\* does not end as a successful empty result.
C23_SearchOutcome ==
    IsSearch =>
        /\ resp.status \in {"returned", "200", "400", "500"}
        /\ resp.status = "500" => resp.failed
        /\ resp.failed => ~(resp.status \in {"returned", "200"} /\ resp.related = <<>>)

(***************************************************************************)
(* api_pipeline.py: /api/summarize, /api/process_summary, /api/feedback    *)
(* and PUT /api/pipeline/config.  The handlers are coroutines without an   *)
(* await, so each runs to its response before the next request is served.  *)
(* The embedding model is available in this specification: the vector of a *)
(* stored text is Encode(text).                                            *)
(***************************************************************************)
\* the RL agent is triggered at every multiple of this many feedback rows
FeedbackBatch == 5
\* feedback requests are sent until the table holds this many rows
MaxFeedback == 5

\* uuid4().hex[:6] behind "s" and "t", scaled down to what uuid4 may return
SummaryIds == {"s1"}
TaskIds == {"t1"}
MessageTexts == {"a", "b"}
Scores == {0 - 1, 0, 1}

Configs ==
    [enable_summarization : BOOLEAN, enable_task_generation : BOOLEAN,
     enable_embedding_storage : BOOLEAN]

\* text[:n]
Prefix(text, n) == SubSeq(text, 1, Min2(n, Len(text)))

\* f"Summary of: {message_text[:50]}..."
SummaryText(message_text) == "Summary of: " \o Prefix(message_text, 50) \o "..."

\* f"Action item based on: {summary_text[:30]}..."
TaskText(summary_text) == "Action item based on: " \o Prefix(summary_text, 30) \o "..."

\* INSERT OR REPLACE INTO summaries / tasks, whose primary key is the id
UpsertSource(tab, row) == Append(SelectSeq(tab, LAMBDA r : r.id # row.id), row)

\* embedding_service.store_embedding as the pipeline calls it: the returned
\* boolean is dropped
PipelineStore(tab, item_type, item_id, text, embFails) ==
    IF embFails THEN tab
    ELSE InsertOrReplace(tab, Row(item_type, item_id, JsonDumps(Encode(text)), text))

SummarizeResp(message_text, status, summary_id, summary_text) ==
    [op |-> "summarize", message_text |-> message_text, status |-> status,
     summary_id |-> summary_id, summary_text |-> summary_text]

\* summarize_message: the HTTPException(400) of the disabled stage is raised
\* inside the try and caught by `except Exception`, which answers 500;
\* dbFails: the INSERT into summaries raises; embFails: store_embedding
\* returns False
summarize_message(message_text, summary_id, dbFails, embFails) ==
    LET summary_text == SummaryText(message_text)
    IN  /\ IF ~pipeline_config.enable_summarization \/ dbFails
           THEN /\ resp' = SummarizeResp(message_text, "500", NoneVal, NoneVal)
                /\ UNCHANGED <<summaries, embeddings>>
           ELSE /\ summaries' = UpsertSource(summaries, SourceRow(summary_id, summary_text))
                /\ embeddings' =
                      IF pipeline_config.enable_embedding_storage
                      THEN PipelineStore(embeddings, "summary", summary_id, summary_text, embFails)
                      ELSE embeddings
                /\ resp' = SummarizeResp(message_text, "200", summary_id, summary_text)
        /\ UNCHANGED <<hashSeed, tasks, indexer, sideVars>>

ProcessResp(summary_id, status, task_id, task_text) ==
    [op |-> "process_summary", summary_id |-> summary_id, status |-> status,
     task_id |-> task_id, task_text |-> task_text]

\* process_summary: 400 when the stage is disabled, 404 when the summary is
\* not there (both re-raised by `except HTTPException`), 500 when the
\* database raises
process_summary(summary_id, task_id, dbFails, embFails) ==
    LET result == SelectSeq(summaries, LAMBDA r : r.id = summary_id)
    IN  /\ IF ~pipeline_config.enable_task_generation
           THEN /\ resp' = ProcessResp(summary_id, "400", NoneVal, NoneVal)
                /\ UNCHANGED <<tasks, embeddings>>
           ELSE IF dbFails
           THEN /\ resp' = ProcessResp(summary_id, "500", NoneVal, NoneVal)
                /\ UNCHANGED <<tasks, embeddings>>
           ELSE IF result = <<>>
           THEN /\ resp' = ProcessResp(summary_id, "404", NoneVal, NoneVal)
                /\ UNCHANGED <<tasks, embeddings>>
           ELSE LET task_text == TaskText(result[1].text)
                IN  /\ tasks' = UpsertSource(tasks, SourceRow(task_id, task_text))
                    /\ embeddings' =
                          IF pipeline_config.enable_embedding_storage
                          THEN PipelineStore(embeddings, "task", task_id, task_text, embFails)
                          ELSE embeddings
                    /\ resp' = ProcessResp(summary_id, "200", task_id, task_text)
        /\ UNCHANGED <<hashSeed, summaries, indexer, sideVars>>

FeedbackResp(score, status, triggered) ==
    [op |-> "feedback", score |-> score, status |-> status,
     rl_agent_triggered |-> triggered]

\* submit_feedback: the HTTPException(400) of the score check is caught by
\* `except Exception`, which answers 500; dbFails: the INSERT raises;
\* countFails: the COUNT query raises, which the inner except only logs
submit_feedback(score, dbFails, countFails) ==
    /\ IF score \notin {0 - 1, 1} \/ dbFails
       THEN /\ resp' = FeedbackResp(score, "500", FALSE)
            /\ UNCHANGED coach_feedback
       ELSE LET feedback_count == Len(coach_feedback) + 1
            IN  /\ coach_feedback' = Append(coach_feedback, [score |-> score])
                /\ resp' = FeedbackResp(score, "200",
                                        ~countFails /\ feedback_count % FeedbackBatch = 0)
    /\ UNCHANGED <<embeddings, hashSeed, indexVars, writers, service, pipeline_config>>

\* update_pipeline_config
update_pipeline_config(config) ==
    /\ pipeline_config' = config
    /\ UNCHANGED <<embeddings, hashSeed, resp, indexVars, writers, service, coach_feedback>>

Summarize ==
    \E message_text \in MessageTexts, summary_id \in SummaryIds,
       dbFails \in BOOLEAN, embFails \in BOOLEAN :
        resp = NoResp /\ summarize_message(message_text, summary_id, dbFails, embFails)

ProcessSummary ==
    \E summary_id \in SummaryIds \cup {"s2"}, task_id \in TaskIds,
       dbFails \in BOOLEAN, embFails \in BOOLEAN :
        resp = NoResp /\ process_summary(summary_id, task_id, dbFails, embFails)

Feedback ==
    \E score \in Scores, dbFails \in BOOLEAN, countFails \in BOOLEAN :
        /\ resp = NoResp
        /\ Len(coach_feedback) < MaxFeedback
        /\ submit_feedback(score, dbFails, countFails)

UpdateConfig ==
    \E config \in Configs :
        resp = NoResp /\ config # pipeline_config /\ update_pipeline_config(config)

NextPipe ==
    \/ Summarize
    \/ ProcessSummary
    \/ Feedback
    \/ UpdateConfig
    \/ Return

InitPipe ==
    /\ embeddings = <<>>
    /\ hashSeed = 0
    /\ resp = NoResp
    /\ summaries = <<>>
    /\ tasks = <<>>
    /\ indexer = Idle
    /\ InitSide

SpecPipe == InitPipe /\ [][NextPipe]_vars

\* the row at key (item_type, item_id) carries this text
StoredWithText(item_type, item_id, text) ==
    LET rows == RowsAt(embeddings, item_type, item_id)
    IN  rows # <<>> /\ rows[1].text_content = text

\* C24: after /api/summarize succeeded with embedding storage enabled, the
\* store holds a record ('summary', summary_id) whose text is the returned
\* summary_text; after /api/process_summary succeeded it holds a record
\* ('task', task_id) with the returned task_text.
C24_PipelineStores ==
    (resp.op \in {"summarize", "process_summary"} /\ resp.status = "200"
       /\ pipeline_config.enable_embedding_storage) =>
        IF resp.op = "summarize"
        THEN StoredWithText("summary", resp.summary_id, resp.summary_text)
        ELSE StoredWithText("task", resp.task_id, resp.task_text)

\* a rejected request: a feedback whose score is neither 1 nor -1, or a
\* summarize request while summarization is disabled
RejectedFeedback == resp.op = "feedback" /\ resp.score \notin {0 - 1, 1}
RejectedSummarize == resp.op = "summarize" /\ ~pipeline_config.enable_summarization

\* C29: a feedback with a score other than 1 and -1 is answered 400, stores
\* no coach_feedback row and triggers no RL processing; a summarize request
\* while summarization is disabled is answered 400 and stores neither a
\* summary nor an embedding.
C29_Rejections ==
    [][/\ (resp = NoResp /\ RejectedFeedback') =>
            /\ resp'.status = "400"
            /\ coach_feedback' = coach_feedback
            /\ ~resp'.rl_agent_triggered
       /\ (resp = NoResp /\ RejectedSummarize') =>
            /\ resp'.status = "400"
            /\ summaries' = summaries
            /\ embeddings' = embeddings]_vars

(***************************************************************************)
(* Records without source text                                             *)
(***************************************************************************)
\* the stored record of a returned item has a source text
HasSourceText(item) ==
    LET rows == RowsAt(embeddings, item.item_type, item.item_id)
    IN  rows # <<>> /\ Truthy(rows[1].text_content)

\* C25: no search entry point returns a record whose stored source text is
\* NULL or empty.
C25_TextlessExcluded ==
    (Answered /\ resp.status \in {"returned", "200"}) =>
        \A i \in 1..Len(resp.related) : HasSourceText(resp.related[i])

(***************************************************************************)
(* Long texts: records whose text is around the display limit of           *)
(* search_similar_items are stored through EmbeddingService and searched.  *)
(***************************************************************************)
\* the stored texts are up to this much longer than TextLimit - 1
MaxOver == 2

X10 == "xxxxxxxxxx"
X50 == X10 \o X10 \o X10 \o X10 \o X10
X250 == X50 \o X50 \o X50 \o X50 \o X50

\* "x" * n, for n up to 250
Repeat(n) == SubSeq(X250, 1, n)

LongTexts == {Repeat(TextLimit - 1 + i) : i \in 0..MaxOver}

StoreLong ==
    \E key \in Keys, text \in LongTexts \cup {"a"} :
        /\ resp = NoResp
        /\ \E vec \in generate_embedding(text) : ES_store_embedding(key, text, vec, FALSE)

SearchLong ==
    \E text \in {"a", NoneVal}, sid \in QueryIds, k \in 1..MaxTopK :
        resp = NoResp /\ ES_search(text, sid, k)

NextLong ==
    \/ StoreLong
    \/ SearchLong
    \/ Return

SpecLong == Init /\ [][NextLong]_vars

\* the stored row of a returned item
StoredRow(item) == RowsAt(embeddings, item.item_type, item.item_id)[1]

\* the table with the text of the row at the key of item replaced by text
WithText(tab, item, text) ==
    [i \in 1..Len(tab) |->
        IF SameItem(tab[i], item)
        THEN Row(tab[i].item_type, tab[i].item_id, tab[i].vector_blob, text)
        ELSE tab[i]]

\* the scores the item gets when the search runs on table tab
ScoresOn(tab, item) ==
    LET sims == ES_similarities(tab, resp.query_vec)
    IN  {sims[i].score : i \in {j \in 1..Len(sims) : SameItem(sims[j], item)}}

\* C26: a returned item carries the stored text unchanged when it has at
\* most 200 characters and otherwise its first 200 characters followed by
\* '...'; its score is the cosine of the query vector and the stored vector,
\* and is the same whatever text of whatever length the record carries.
C26_Truncation ==
    (IsESSearch /\ Answered) =>
        \A i \in 1..Len(resp.related) :
            LET item == resp.related[i]
                row == StoredRow(item)
                stored == row.text_content
            IN  /\ Len(stored) <= 200 => item.text = stored
                /\ Len(stored) > 200 =>
                      /\ Len(item.text) = 203
                      /\ SubSeq(item.text, 1, 200) = SubSeq(stored, 1, 200)
                      /\ SubSeq(item.text, 201, 203) = "..."
                /\ item.score = ES_cosine_similarity(resp.query_vec, JsonLoads(row.vector_blob))
                /\ \A text \in LongTexts \cup {"a"} :
                      ScoresOn(WithText(embeddings, item, text), item) = {item.score}

\* a search returned a record whose text is longer than the limit next to
\* one whose text is not
C26_Witness ==
    /\ IsESSearch /\ Answered
    /\ \E i, j \in 1..Len(resp.related) :
          /\ Len(StoredRow(resp.related[i]).text_content) > TextLimit
          /\ Len(StoredRow(resp.related[j]).text_content) = TextLimit

(***************************************************************************)
(* Statistics and purge: GET /api/embeddings/stats of api_chandresh.py and *)
(* clear_existing_embeddings of rebuild_embeddings.py, next to the stores  *)
(* and searches of Spec.                                                   *)
(***************************************************************************)
\* SELECT COUNT(*) FROM embeddings WHERE item_type = t
CountOfType(tab, t) == Len(SelectSeq(tab, LAMBDA r : r.item_type = t))

\* get_embedding_stats: two SELECTs; dbFails: the handler answers 500
get_embedding_stats(dbFails) ==
    /\ resp' = IF dbFails THEN [op |-> "stats", status |-> "500"]
               ELSE [op |-> "stats", status |-> "200",
                     total_embeddings |-> Len(embeddings),
                     by_type |-> [t \in {r \in ItemTypes : CountOfType(embeddings, r) > 0} |->
                                     CountOfType(embeddings, t)]]
    /\ UNCHANGED <<embeddings, hashSeed, indexVars, sideVars>>

\* deleted: the row count of the DELETE statement
PurgeResp(item_type, ok, deleted) ==
    [op |-> "purge", item_type |-> item_type, ok |-> ok, deleted |-> deleted]

\* clear_existing_embeddings deleting every row whatever type it is given
clear_existing_embeddings_All(item_type, dbFails) ==
    /\ IF dbFails
       THEN /\ embeddings' = embeddings
            /\ resp' = PurgeResp(item_type, FALSE, 0)
       ELSE /\ embeddings' = <<>>
            /\ resp' = PurgeResp(item_type, TRUE, Len(embeddings))
    /\ UNCHANGED <<hashSeed, indexVars, sideVars>>

\* clear_existing_embeddings: DELETE ... WHERE item_type = ? for a truthy
\* item_type, DELETE of every row for None; dbFails: the exception is logged
\* and raised again, nothing is committed
clear_existing_embeddings(item_type, dbFails) ==
    /\ IF dbFails
       THEN /\ embeddings' = embeddings
            /\ resp' = PurgeResp(item_type, FALSE, 0)
       ELSE LET kept == IF Truthy(item_type)
                        THEN SelectSeq(embeddings, LAMBDA r : r.item_type # item_type)
                        ELSE <<>>
            IN  /\ embeddings' = kept
                /\ resp' = PurgeResp(item_type, TRUE, Len(embeddings) - Len(kept))
    /\ UNCHANGED <<hashSeed, indexVars, sideVars>>

Stats == \E dbFails \in BOOLEAN : resp = NoResp /\ get_embedding_stats(dbFails)

Purge ==
    \E item_type \in ItemTypes \cup {NoneVal}, dbFails \in BOOLEAN :
        resp = NoResp /\ clear_existing_embeddings(item_type, dbFails)

NextPurge ==
    \/ StoreES
    \/ StoreMain
    \/ SearchES
    \/ SearchAPI
    \/ SearchMain
    \/ Stats
    \/ Purge
    \/ Return

SpecPurge == Init /\ [][NextPurge]_vars

\* some key that has a record before the step has none after it
RecordRemoved ==
    \E i \in 1..Len(embeddings) :
        ~HasKey(embeddings', embeddings[i].item_type, embeddings[i].item_id)

\* C27: a search or a statistics request leaves the records as they are; a
\* record is removed by no operation but the purge; and a purge of type T
\* removes the records of type T and leaves every other record, and their
\* order, as it was.
C27_PurgeOnly ==
    [][/\ (resp = NoResp /\ resp'.op \in {"es_search", "api_search", "main_search", "stats"})
              => embeddings' = embeddings
       /\ RecordRemoved => (resp = NoResp /\ resp'.op = "purge")
       /\ (resp = NoResp /\ resp'.op = "purge" /\ resp'.ok /\ resp'.item_type \in ItemTypes)
              => /\ \A i \in 1..Len(embeddings') : embeddings'[i].item_type # resp'.item_type
                 /\ embeddings' =
                       SelectSeq(embeddings, LAMBDA r : r.item_type # resp'.item_type)]_vars

\* a purge of one type removed a record and left a record of the other type
C27_Witness ==
    /\ resp.op = "purge"
    /\ resp.ok
    /\ resp.item_type \in ItemTypes
    /\ resp.deleted > 0
    /\ embeddings # <<>>

(***************************************************************************)
(* The retry loop of api_chandresh.store_embedding, step by step.  resp    *)
(* holds the running request: attempt is the loop variable, outcomes the   *)
(* results of the calls of embedding_service.store_embedding made so far,  *)
(* sleeps the backoffs slept so far in tenths of a second.  The handler    *)
(* awaits only in asyncio.sleep, where other requests are served.          *)
(***************************************************************************)
RetryTexts == {"", "a", "b"}

RetryRun(pc, key, text, attempt, outcomes, sleeps, status) ==
    [op |-> "api_store_run", pc |-> pc, item_type |-> key[1], item_id |-> key[2],
     text |-> text, attempt |-> attempt, outcomes |-> outcomes, sleeps |-> sleeps,
     status |-> status]

\* a backoff that does not grow
Backoff_Constant(attempt) == 1

\* asyncio.sleep(0.1 * (2 ** attempt)), in tenths of a second
Backoff(attempt) == 2 ^ attempt

\* the request arrives: 400 without a call when an argument is falsy
RetryBegin(key, text) ==
    /\ resp' = IF ~Truthy(key[1]) \/ ~Truthy(key[2]) \/ ~Truthy(text)
               THEN RetryRun("done", key, text, 0, <<>>, <<>>, "400")
               ELSE RetryRun("call", key, text, 0, <<>>, <<>>, "none")
    /\ UNCHANGED <<embeddings, hashSeed, indexVars, sideVars>>

\* one pass of the loop body up to its await or its return; success: what
\* embedding_service.store_embedding returns
RetryCall(success, vec) ==
    /\ resp.op = "api_store_run"
    /\ resp.pc = "call"
    /\ vec \in generate_embedding(resp.text)
    /\ LET outcomes == Append(resp.outcomes, success)
       IN  IF success
           THEN /\ embeddings' = InsertOrReplace(embeddings,
                                    Row(resp.item_type, resp.item_id, JsonDumps(vec), resp.text))
                /\ resp' = [resp EXCEPT !.pc = "done", !.outcomes = outcomes,
                                        !.status = "200"]
           ELSE /\ embeddings' = embeddings
                /\ resp' = IF resp.attempt < MAX_RETRIES - 1
                           THEN [resp EXCEPT !.pc = "sleep", !.outcomes = outcomes]
                           ELSE [resp EXCEPT !.pc = "done", !.outcomes = outcomes,
                                             !.status = "500"]
    /\ UNCHANGED <<hashSeed, indexVars, sideVars>>

\* asyncio.sleep returns and the loop goes on with the next attempt
RetryWake ==
    /\ resp.op = "api_store_run"
    /\ resp.pc = "sleep"
    /\ resp' = [resp EXCEPT !.pc = "call", !.attempt = resp.attempt + 1,
                            !.sleeps = Append(resp.sleeps, Backoff(resp.attempt))]
    /\ UNCHANGED <<embeddings, hashSeed, indexVars, sideVars>>

\* another request served while the handler sleeps stores a record
RetryInterleaved(key, text, vec) ==
    /\ resp.op = "api_store_run"
    /\ resp.pc = "sleep"
    /\ vec \in generate_embedding(text)
    /\ embeddings' = InsertOrReplace(embeddings, Row(key[1], key[2], JsonDumps(vec), text))
    /\ embeddings' # embeddings
    /\ UNCHANGED <<hashSeed, resp, indexVars, sideVars>>

\* the response is sent
RetryReturn ==
    /\ resp.op = "api_store_run"
    /\ resp.pc = "done"
    /\ resp' = NoResp
    /\ UNCHANGED <<embeddings, hashSeed, indexVars, sideVars>>

StoreRequest ==
    \E key \in Keys, text \in RetryTexts : resp = NoResp /\ RetryBegin(key, text)

StoreAttempt ==
    \E success \in BOOLEAN :
        /\ resp.op = "api_store_run"
        /\ resp.pc = "call"
        /\ \E vec \in generate_embedding(resp.text) : RetryCall(success, vec)

StoreWhileAsleep ==
    \E key \in Keys, text \in {"a", "b"} :
        /\ resp.op = "api_store_run"
        /\ resp.pc = "sleep"
        /\ RetryInterleaved(key, text, Encode(text))

NextRetry ==
    \/ StoreRequest
    \/ StoreAttempt
    \/ RetryWake
    \/ StoreWhileAsleep
    \/ RetryReturn

\* a call of embedding_service.store_embedding returns and a sleep ends
SpecRetry ==
    /\ Init
    /\ [][NextRetry]_vars
    /\ WF_vars(StoreAttempt)
    /\ WF_vars(RetryWake)

IsRetryRun == resp.op = "api_store_run"

\* C28: a store request to api_chandresh terminates; it makes at most
\* MAX_RETRIES = 3 calls of embedding_service.store_embedding, none after
\* a successful one, answers success after it, sleeps 0.1 * 2^attempt
\* seconds after each failed attempt but the last, and answers 500 only
\* after three failed calls.
C28_RetryLoop ==
    /\ [](IsRetryRun =>
            /\ Len(resp.outcomes) <= 3
            /\ \A i \in 1..(Len(resp.outcomes) - 1) : ~resp.outcomes[i]
            /\ \A i \in 1..Len(resp.sleeps) : resp.sleeps[i] = 2 ^ (i - 1)
            /\ Len(resp.sleeps) < 3
            /\ resp.pc = "done" =>
                  /\ resp.status \in {"200", "400", "500"}
                  /\ resp.status = "400" => resp.outcomes = <<>>
                  /\ resp.status # "400" => Len(resp.sleeps) = Len(resp.outcomes) - 1
                  /\ resp.status = "200" <=>
                        (resp.outcomes # <<>> /\ resp.outcomes[Len(resp.outcomes)])
                  /\ resp.status = "500" =>
                        (Len(resp.outcomes) = 3 /\ \A i \in 1..3 : ~resp.outcomes[i]))
    /\ (IsRetryRun ~> (IsRetryRun /\ resp.pc = "done"))

\* the third call succeeded after two failed calls and two sleeps
C28_Witness ==
    /\ IsRetryRun
    /\ resp.pc = "done"
    /\ resp.status = "200"
    /\ resp.outcomes = <<FALSE, FALSE, TRUE>>
    /\ resp.sleeps = <<1, 2>>

(***************************************************************************)
(* Lazy loading of the SentenceTransformer model.  One EmbeddingService    *)
(* instance serves the requests of a process; its methods are plain        *)
(* functions called from coroutines on one event loop and from scripts, so *)
(* a call of generate_embedding runs from its start to its return without  *)
(* another call in between.  Requests interleave at their awaits: a        *)
(* request that sleeps in its retry loop calls generate_embedding again    *)
(* after other requests have.  Model objects are numbered as they are      *)
(* built.                                                                  *)
(***************************************************************************)
\* generate_embedding calls made in a run of the model
MaxGenCalls == 5
Requests == {1, 2, 3}

\* the model property building a model object at every access
ModelProperty_Eager(svc, loadable) ==
    IF loadable
    THEN [svc EXCEPT !.model = svc.loads + 1, !.loads = svc.loads + 1]
    ELSE svc

\* the model property: the object is built when _model is None; loadable:
\* SentenceTransformer(model_name) returns, otherwise it raises and _model
\* stays None
ModelProperty(svc, loadable) ==
    IF svc.model # 0 THEN svc
    ELSE IF loadable
    THEN [svc EXCEPT !.model = svc.loads + 1, !.loads = svc.loads + 1]
    ELSE svc

\* generate_embedding called by request r; the model object it encodes
\* with is recorded.  awaits: the request then waits in an await and will
\* call again (the retry loop of the handlers), otherwise it is done
GenerateEmbedding(r, loadable, awaits) ==
    /\ Len(service.calls) < MaxGenCalls
    /\ LET svc == ModelProperty(service, loadable)
       IN  service' = [svc EXCEPT !.calls = Append(svc.calls, svc.model),
                                  !.asleep = IF awaits THEN svc.asleep \cup {r}
                                             ELSE svc.asleep \ {r}]
    /\ UNCHANGED <<embeddings, hashSeed, resp, indexVars, writers, coach_feedback,
                   pipeline_config>>

\* a request that starts
FirstCall ==
    \E r \in Requests, loadable \in BOOLEAN, awaits \in BOOLEAN :
        /\ r \notin service.asleep
        /\ GenerateEmbedding(r, loadable, awaits)

\* a request that wakes up from its await and calls again
CallAfterAwait ==
    \E r \in Requests, loadable \in BOOLEAN, awaits \in BOOLEAN :
        /\ r \in service.asleep
        /\ GenerateEmbedding(r, loadable, awaits)

\* a request gives up while it waits (the client disconnects)
Cancel ==
    \E r \in Requests :
        /\ r \in service.asleep
        /\ service' = [service EXCEPT !.asleep = service.asleep \ {r}]
        /\ UNCHANGED <<embeddings, hashSeed, resp, indexVars, writers, coach_feedback,
                       pipeline_config>>

NextLazy ==
    \/ FirstCall
    \/ CallAfterAwait
    \/ Cancel

SpecLazy == Init /\ [][NextLazy]_vars

\* C30: over every sequence and interleaving of generate_embedding calls,
\* an EmbeddingService instance builds at most one model object, and from
\* the call that loaded it on every call encodes with that one object.
C30_LoadedOnce ==
    /\ [](/\ service.loads <= 1
          /\ \A i, j \in 1..Len(service.calls) :
                (i < j /\ service.calls[i] # 0) => service.calls[j] = service.calls[i])
    /\ [][service.model # 0 => service'.model = service.model]_vars

\* calls of two requests interleaved: a call that could not load the model,
\* then the call of another request that loaded it while the first waited,
\* then the first request's next call
C30_Witness ==
    /\ Len(service.calls) >= 3
    /\ service.calls[1] = 0
    /\ service.calls[2] # 0
    /\ service.calls[3] # 0
    /\ service.asleep # {}

====
